---- MODULE Spec2Model ----
(***************************************************************************)
(* State-machine model of the multi-tenant PikPak downloader backend       *)
(* (src/app.py, src/database.py): the Users and Tasks tables, the          *)
(* process-wide upstream client, the Flask-Login sessions and one action   *)
(* per HTTP handler.  The upstream service is the environment: each of its *)
(* calls either raises or returns one of the results enumerated here.      *)
(***************************************************************************)
EXTENDS Integers, Sequences, FiniteSets, TLC

\* ------------------------------------------------------------------ bounds
MaxTasks == 2       \* rows the Tasks table may hold
MaxFolders == 2     \* folders the upstream account may hold
MaxUsers == 3       \* rows the Users table may hold
MaxLinks == 2       \* entries of the "medias" list / "links" map of a response

\* ------------------------------------------------------------- input domains
None == "None"
Usernames == {"u", "v"}
Passwords == {"p", "q"}
RegPasswords == {"p"}
Sessions == {"s1"}
Workers == {"w1", "w2"}
TaskIds == {"t1", "t2"}
Urls == {"magnet"}

\* Upstream ids: folder k has id k, the file stored in folder k has id -k,
\* 0 stands for "no id" (Python None), for which the upstream lists the root.
FolderIds == 1..MaxFolders
FileOf(k) == 0 - k
FileIds == {FileOf(k) : k \in FolderIds}

\* What a request may carry where a value is expected: a value of the domain
\* or nothing at all (Python None)
UsernameInputs == Usernames \cup {None}
PasswordInputs == Passwords \cup {None}
RegPasswordInputs == RegPasswords \cup {None}
UrlInputs == Urls \cup {None}
ParentIds == FolderIds \cup {0}

\* What the upstream may do with a call: create_folder raises, answers without
\* an id or with one; offline_download answers with a task id or without;
\* offline_list answers with any set of task ids
FolderOutcomes == {"raise", "noid", "id"}
TaskIdAnswers == TaskIds \cup {None}
Listings == SUBSET TaskIds

\* The step of proxy_download that raises, if any
Failings == {"none", "info", "url", "fetch"}

\* The values of the fields of a get_download_url answer; "" is a falsy one
WebContentLinks == {"", "w"}
MediaUrls == {"", "m"}
LinkValues == {"", "k"}

VARIABLES
  users,          \* Users table: sequence of rows, row i has primary key i
  tasks,          \* Tasks table: sequence of rows in primary-key order
  pikpak_client,  \* the global client: None, "NotLoggedIn" or "LoggedIn"
  env,            \* PIKPAK_USERNAME and PIKPAK_PASSWORD are both set
  session,        \* per browser session: the logged-in user id, 0 if anonymous
  folders,        \* number of folders the upstream account holds
  reg,            \* per worker thread: the register request it is serving
  last,           \* the last response sent, with what serving it did
  granted,        \* history, per session: "never" logged in, logged "out", or
                  \* the username the last login answered 200 for
  got             \* history: <<user id, task id>> for each id a download
                  \* answered 200 with and no delete has answered 200 for since

vars == <<users, tasks, pikpak_client, env, session, folders, reg, last,
          granted, got>>

\* ------------------------------------------------------------ the database
UserRow(username, password_hash, folder_id) ==
  [username |-> username, password_hash |-> password_hash,
   pikpak_folder_id |-> folder_id]

TaskRow(user_id, task_id) ==
  [user_id |-> user_id, pikpak_task_id |-> task_id, name |-> "New Download"]

\* User.query.filter_by(username=...).first(): the primary key, 0 if no row
UserByUsername(username) ==
  IF \E i \in 1..Len(users) : users[i].username = username
  THEN CHOOSE i \in 1..Len(users) :
         /\ users[i].username = username
         /\ \A j \in 1..(i - 1) : users[j].username # username
  ELSE 0

\* the column declared without unique=True: the database refuses nothing
NoUniqueConstraint(username) == FALSE

\* the UNIQUE constraint on user.username, checked by the database at commit
UniqueViolation(username) == \E i \in 1..Len(users) : users[i].username = username

\* the ownership query without its user_id filter
TaskMatchesAnyUser(task_id, user_id) ==
  {i \in 1..Len(tasks) : tasks[i].pikpak_task_id = task_id}

\* the rows Task.query.filter_by(pikpak_task_id=..., user_id=...) matches
TaskMatches(task_id, user_id) ==
  {i \in 1..Len(tasks) :
     tasks[i].pikpak_task_id = task_id /\ tasks[i].user_id = user_id}

\* ....first(): the matching row with the least primary key, 0 if none
FirstTask(task_id, user_id) ==
  IF TaskMatches(task_id, user_id) = {} THEN 0
  ELSE CHOOSE i \in TaskMatches(task_id, user_id) :
         \A j \in TaskMatches(task_id, user_id) : i <= j

\* {t.pikpak_task_id for t in Task.query.filter_by(user_id=...).all()}
UserTaskIds(user_id) ==
  {tasks[i].pikpak_task_id : i \in {j \in 1..Len(tasks) : tasks[j].user_id = user_id}}

RemoveAt(s, i) == SubSeq(s, 1, i - 1) \o SubSeq(s, i + 1, Len(s))

\* ---------------------------------------------------------------- passwords
generate_password_hash(password) == <<"hash", password>>
check_password_hash(pwhash, password) == pwhash = generate_password_hash(password)

\* ------------------------------------------------------------ the responses
NoData == [web_content_link |-> "", medias |-> <<>>, links |-> <<>>]

Resp0 ==
  [ep |-> "", sess |-> "", status |-> 0,
   json |-> TRUE,           \* the body is JSON
   error |-> <<"", "">>,    \* the JSON "error": fixed text, then exception text
   raised |-> <<>>,         \* messages of the exceptions raised while serving
   client |-> FALSE,        \* get_pikpak_client was invoked
   ret |-> None,            \* what get_pikpak_client returned
   owned |-> FALSE,         \* the caller had a Task row for the task id
   calls |-> <<>>,          \* upstream client methods invoked, in order
   dbChanged |-> FALSE,     \* the Users or Tasks table changed
   uidBefore |-> 0, uidAfter |-> 0,
   username |-> "", password |-> "", existed |-> FALSE,
   tid |-> "", fid |-> 0, ids |-> {}, listed |-> {},
   data |-> NoData, url |-> ""]

Call(m, arg) == [m |-> m, arg |-> arg]

R(ep, s) ==
  [Resp0 EXCEPT !.ep = ep, !.sess = s,
                !.uidBefore = session[s], !.uidAfter = session[s]]

\* ------------------------------------------------------ the upstream client
\* get_pikpak_client(): the global after the call, the value returned, and the
\* message of the exception the login raised (caught and logged), if any.
\* The global is assigned before login() runs and is not reset when it raises.
get_pikpak_client(loginOk) ==
  IF pikpak_client = None
  THEN IF ~env
       THEN [global |-> None, ret |-> None, raised |-> <<>>]
       ELSE IF loginOk
            THEN [global |-> "LoggedIn", ret |-> "LoggedIn", raised |-> <<>>]
            ELSE [global |-> "NotLoggedIn", ret |-> None,
                  raised |-> <<"login failed">>]
  ELSE [global |-> pikpak_client, ret |-> pikpak_client, raised |-> <<>>]

\* run_async(client.<method>(...)): the message of the exception it raises, ""
\* when it returns.  No client: AttributeError on None; a client whose login
\* never completed is refused by the upstream; otherwise the upstream decides.
CallRaises(client, ok) ==
  IF client = None THEN "AttributeError"
  ELSE IF client = "NotLoggedIn" THEN "unauthorized"
  ELSE IF ok THEN "" ELSE "upstream error"

\* the upstream method invoked, if there is a client to invoke it on
Invoked(client, call) == IF client = None THEN <<>> ELSE <<call>>

\* -------------------------------------------------------------- Flask-Login
login_view == "login"

is_authenticated(s) == session[s] # 0

current_user(s) == users[session[s]]

\* @login_required without a session user: LoginManager.unauthorized(), which
\* aborts with 401 when no login view is set and redirects to the view when set
unauthorized(ep, s) ==
  /\ last' = [R(ep, s) EXCEPT !.status = IF login_view = None THEN 401 ELSE 302,
                              !.json = FALSE]
  /\ UNCHANGED <<users, tasks, pikpak_client, env, session, folders, reg,
                 granted, got>>

\* @login_required: the view runs only for a session with a logged-in user
login_required(ep, s, view) ==
  IF ~is_authenticated(s) THEN unauthorized(ep, s) ELSE view

\* ------------------------------------------------------------------- Auth
RegIdle == [pc |-> "idle", username |-> "", password |-> "",
            existed |-> FALSE, folder_id |-> 0]

RegResp(w) ==
  [Resp0 EXCEPT !.ep = "register", !.username = reg[w].username,
                !.password = reg[w].password, !.existed = reg[w].existed]

\* register, lines 79-84: the request arrives at a worker thread, its body is
\* parsed and the two fields are checked for presence.  existed records whether
\* the username had a row when the request arrived.
register_parse(w, username, password) ==
  /\ reg[w].pc = "idle"
  /\ LET existed == \E i \in 1..Len(users) : users[i].username = username
     IN IF username = None \/ password = None
        THEN /\ last' = [Resp0 EXCEPT !.ep = "register", !.status = 400,
                           !.username = username, !.password = password,
                           !.existed = existed,
                           !.error = <<"Username and password required", "">>]
             /\ UNCHANGED reg
        ELSE /\ reg' = [reg EXCEPT ![w] =
                          [pc |-> "parsed", username |-> username,
                           password |-> password, existed |-> existed,
                           folder_id |-> 0]]
             /\ UNCHANGED last
  /\ UNCHANGED <<users, tasks, pikpak_client, env, session, folders,
                 granted, got>>

\* register, lines 86-87: the existence query
register_check(w) ==
  /\ reg[w].pc = "parsed"
  /\ IF UserByUsername(reg[w].username) # 0
     THEN /\ last' = [RegResp(w) EXCEPT !.status = 400,
                        !.error = <<"Username already exists", "">>]
          /\ reg' = [reg EXCEPT ![w] = RegIdle]
     ELSE /\ reg' = [reg EXCEPT ![w].pc = "checked"]
          /\ UNCHANGED last
  /\ UNCHANGED <<users, tasks, pikpak_client, env, session, folders,
                 granted, got>>

\* register, lines 89-105: the client, then the user's upstream folder.  The
\* upstream raises, answers without a file id, or answers with a fresh id.
register_folder(w, loginOk, outcome) ==
  /\ reg[w].pc = "checked"
  /\ outcome = "id" => folders < MaxFolders
  /\ LET g == get_pikpak_client(loginOk)
         exc == CallRaises(g.ret, outcome # "raise")
         call == Invoked(g.ret, Call("create_folder", reg[w].username))
         r == [RegResp(w) EXCEPT !.client = TRUE, !.ret = g.ret]
     IN /\ pikpak_client' = g.global
        /\ IF g.ret = None
           THEN /\ last' = [r EXCEPT !.status = 500, !.raised = g.raised,
                              !.error = <<"Server configuration error", "">>]
                /\ reg' = [reg EXCEPT ![w] = RegIdle]
                /\ UNCHANGED folders
           ELSE IF exc # ""
           THEN /\ last' = [r EXCEPT !.status = 500,
                              !.calls = call, !.raised = <<exc>>,
                              !.error = <<"Failed to create user storage: ", exc>>]
                /\ reg' = [reg EXCEPT ![w] = RegIdle]
                /\ UNCHANGED folders
           ELSE /\ folders' = IF outcome = "id" THEN folders + 1 ELSE folders
                /\ reg' = [reg EXCEPT ![w].pc = "created",
                             ![w].folder_id = IF outcome = "id" THEN folders + 1
                                              ELSE 0]
                /\ UNCHANGED last
  /\ UNCHANGED <<users, tasks, env, session, granted, got>>

\* register, lines 107-112: the insert and its commit, which the database
\* refuses (IntegrityError, not caught by the handler) for a taken username
register_commit(w) ==
  /\ reg[w].pc = "created"
  /\ Len(users) < MaxUsers
  /\ LET r == [RegResp(w) EXCEPT !.client = TRUE, !.ret = "LoggedIn",
                 !.calls = <<Call("create_folder", reg[w].username)>>]
     IN IF UniqueViolation(reg[w].username)
        THEN /\ UNCHANGED users
             /\ last' = [r EXCEPT !.status = 500, !.json = FALSE,
                                  !.raised = <<"IntegrityError">>]
        ELSE /\ users' = Append(users,
                           UserRow(reg[w].username,
                                   generate_password_hash(reg[w].password),
                                   reg[w].folder_id))
             /\ last' = [r EXCEPT !.status = 200, !.dbChanged = (users' # users)]
  /\ reg' = [reg EXCEPT ![w] = RegIdle]
  /\ UNCHANGED <<tasks, pikpak_client, env, session, folders, granted, got>>

\* login, lines 114-126.  check_password_hash raises on a missing password
\* (None has no encode()), which the handler does not catch.
login(s, username, password) ==
  LET user == UserByUsername(username)
      r == [R("login", s) EXCEPT !.username = username, !.password = password]
  IN /\ IF user # 0 /\ password = None
        THEN /\ last' = [r EXCEPT !.status = 500, !.json = FALSE,
                                  !.raised = <<"AttributeError">>]
             /\ UNCHANGED <<session, granted>>
        ELSE IF user # 0 /\ check_password_hash(users[user].password_hash, password)
        THEN /\ session' = [session EXCEPT ![s] = user]
             /\ granted' = [granted EXCEPT ![s] = username]
             /\ last' = [r EXCEPT !.status = 200, !.uidAfter = session'[s]]
        ELSE /\ last' = [r EXCEPT !.status = 401,
                                  !.error = <<"Invalid credentials", "">>]
             /\ UNCHANGED <<session, granted>>
     /\ UNCHANGED <<users, tasks, pikpak_client, env, folders, reg, got>>

\* logout, lines 128-132
logout(s) ==
  /\ session' = [session EXCEPT ![s] = 0]
  /\ granted' = [granted EXCEPT ![s] = "out"]
  /\ last' = [R("logout", s) EXCEPT !.status = 200, !.uidAfter = session'[s]]
  /\ UNCHANGED <<users, tasks, pikpak_client, env, folders, reg, got>>

\* get_current_user_info, lines 134-137
get_current_user_info(s) ==
  /\ last' = [R("user", s) EXCEPT !.status = 200,
                                  !.username = current_user(s).username]
  /\ UNCHANGED <<users, tasks, pikpak_client, env, session, folders, reg,
                 granted, got>>

\* ------------------------------------------------------------------ Files
\* list_files, lines 141-162
list_files(s, parent_id, loginOk, ok) ==
  LET g == get_pikpak_client(loginOk)
      target_folder == IF parent_id # 0 THEN parent_id
                       ELSE current_user(s).pikpak_folder_id
      exc == CallRaises(g.ret, ok)
      r == [R("files", s) EXCEPT !.client = TRUE, !.ret = g.ret,
                                 !.fid = parent_id]
  IN /\ pikpak_client' = g.global
     /\ IF g.ret = None
        THEN last' = [r EXCEPT !.status = 500, !.raised = g.raised,
                               !.error = <<"Backend error", "">>]
        ELSE IF exc # ""
        THEN last' = [r EXCEPT !.status = 500, !.raised = <<exc>>,
                        !.error = <<"", exc>>,
                        !.calls = <<Call("file_list", target_folder)>>]
        ELSE last' = [r EXCEPT !.status = 200,
                        !.calls = <<Call("file_list", target_folder)>>]
     /\ UNCHANGED <<users, tasks, env, session, folders, reg, granted, got>>

\* The handlers that pass one call through inside try/except: get_file_info
\* (lines 269-277), get_download_url (279-287), get_quota (331-339)
pass_through(ep, method, s, file_id, loginOk, ok) ==
  LET g == get_pikpak_client(loginOk)
      exc == CallRaises(g.ret, ok)
      r == [R(ep, s) EXCEPT !.client = TRUE, !.ret = g.ret, !.fid = file_id,
                            !.calls = Invoked(g.ret, Call(method, file_id)),
                            !.raised = g.raised]
  IN /\ pikpak_client' = g.global
     /\ IF exc # ""
        THEN last' = [r EXCEPT !.status = 500, !.error = <<"", exc>>,
                               !.raised = Append(g.raised, exc)]
        ELSE last' = [r EXCEPT !.status = 200]
     /\ UNCHANGED <<users, tasks, env, session, folders, reg, granted, got>>

get_file_info(s, file_id, loginOk, ok) ==
  pass_through("file_info", "offline_file_info", s, file_id, loginOk, ok)

get_download_url(s, file_id, loginOk, ok) ==
  pass_through("file_url", "get_download_url", s, file_id, loginOk, ok)

get_quota(s, loginOk, ok) ==
  pass_through("quota", "get_quota_info", s, 0, loginOk, ok)

\* trash_files, lines 317-329
trash_files(s, file_ids, loginOk, ok) ==
  LET g == get_pikpak_client(loginOk)
      exc == CallRaises(g.ret, ok)
      r == [R("trash", s) EXCEPT !.client = TRUE, !.ret = g.ret,
                                 !.raised = g.raised]
      call == Invoked(g.ret, Call("delete_to_trash", file_ids))
  IN /\ pikpak_client' = g.global
     /\ IF file_ids = <<>>
        THEN last' = [r EXCEPT !.status = 400, !.error = <<"No file IDs", "">>]
        ELSE IF exc # ""
        THEN last' = [r EXCEPT !.status = 500, !.error = <<"", exc>>,
                               !.calls = call,
                               !.raised = Append(g.raised, exc)]
        ELSE last' = [r EXCEPT !.status = 200, !.calls = call]
     /\ UNCHANGED <<users, tasks, env, session, folders, reg, granted, got>>

\* proxy_download, lines 297-299: the URL probed out of the upstream response;
\* "" stands for every falsy result (None, "", an empty list or map)
SelectUrl(download_data) ==
  IF download_data.web_content_link # "" THEN download_data.web_content_link
  ELSE IF Len(download_data.medias) > 0 /\ download_data.medias[1] # ""
       THEN download_data.medias[1]
  ELSE IF Len(download_data.links) > 0 THEN download_data.links[1]
  ELSE ""

\* proxy_download, lines 289-315.  failing names the step that raises, if any:
\* the metadata call, the URL call or the fetch of the URL.
proxy_download(s, file_id, download_data, failing, loginOk) ==
  LET g == get_pikpak_client(loginOk)
      exc1 == CallRaises(g.ret, failing # "info")
      exc2 == CallRaises(g.ret, failing # "url")
      info == Invoked(g.ret, Call("offline_file_info", file_id))
      both == info \o Invoked(g.ret, Call("get_download_url", file_id))
      url == SelectUrl(download_data)
      r == [R("proxy", s) EXCEPT !.client = TRUE, !.ret = g.ret,
                                 !.fid = file_id, !.raised = g.raised]
  IN /\ pikpak_client' = g.global
     /\ IF exc1 # ""
        THEN last' = [r EXCEPT !.status = 500, !.error = <<"", exc1>>,
                               !.calls = info,
                               !.raised = Append(g.raised, exc1)]
        ELSE IF exc2 # ""
        THEN last' = [r EXCEPT !.status = 500, !.error = <<"", exc2>>,
                               !.calls = both,
                               !.raised = Append(g.raised, exc2)]
        ELSE IF url = ""
        THEN last' = [r EXCEPT !.status = 404, !.calls = both,
                               !.data = download_data,
                               !.error = <<"Download URL not found", "">>]
        ELSE IF failing = "fetch"
        THEN last' = [r EXCEPT !.status = 500, !.calls = both,
                               !.data = download_data, !.url = url,
                               !.error = <<"", "fetch failed">>,
                               !.raised = <<"fetch failed">>]
        ELSE last' = [r EXCEPT !.status = 200, !.json = FALSE,
                               !.calls = both,
                               !.data = download_data, !.url = url]
     /\ UNCHANGED <<users, tasks, env, session, folders, reg, granted, got>>

\* -------------------------------------------------------------- Downloads
\* add_download, lines 166-194.  The upstream raises, or answers with a task
\* id; task_id = None stands for an answer that carries no task id.
add_download(s, magnet_url, task_id, loginOk, ok) ==
  LET g == get_pikpak_client(loginOk)
      parent_id == current_user(s).pikpak_folder_id
      exc == CallRaises(g.ret, ok)
      call == Invoked(g.ret, Call("offline_download", parent_id))
      r == [R("download", s) EXCEPT !.client = TRUE, !.ret = g.ret,
                                    !.raised = g.raised]
  IN /\ pikpak_client' = g.global
     /\ IF magnet_url = None
        THEN /\ last' = [r EXCEPT !.status = 400,
                                  !.error = <<"Magnet URL required", "">>]
             /\ UNCHANGED <<tasks, got>>
        ELSE IF exc # ""
        THEN /\ last' = [r EXCEPT !.status = 500, !.error = <<"", exc>>,
                                  !.calls = call,
                                  !.raised = Append(g.raised, exc)]
             /\ UNCHANGED <<tasks, got>>
        ELSE /\ task_id # None => Len(tasks) < MaxTasks
             /\ tasks' = IF task_id # None
                         THEN Append(tasks, TaskRow(session[s], task_id))
                         ELSE tasks
             /\ got' = IF task_id # None THEN got \cup {<<session[s], task_id>>}
                       ELSE got
             /\ last' = [r EXCEPT !.status = 200, !.calls = call,
                                  !.tid = task_id,
                                  !.dbChanged = (tasks' # tasks)]
     /\ UNCHANGED <<users, env, session, folders, reg, granted>>

\* the filter comparing the upstream id with the wrong key: nothing matches
FilterTasksWrongKey(pikpak_tasks, user_task_ids) == {}

\* list_tasks, lines 218-222: the upstream tasks whose id is one of the user's
FilterTasks(pikpak_tasks, user_task_ids) == pikpak_tasks \cap user_task_ids

\* list_tasks, lines 196-226.  listed is the set of task ids the upstream
\* offline_list(limit=100) answers with (empty also when it has no "tasks").
list_tasks(s, listed, loginOk, ok) ==
  LET g == get_pikpak_client(loginOk)
      user_task_ids == UserTaskIds(session[s])
      exc == CallRaises(g.ret, ok)
      call == Invoked(g.ret, Call("offline_list", 100))
      r == [R("tasks", s) EXCEPT !.client = TRUE, !.ret = g.ret,
                                 !.raised = g.raised]
  IN /\ pikpak_client' = g.global
     /\ IF user_task_ids = {}
        THEN last' = [r EXCEPT !.status = 200]
        ELSE IF exc # ""
        THEN last' = [r EXCEPT !.status = 500, !.error = <<"", exc>>,
                               !.calls = call,
                               !.raised = Append(g.raised, exc)]
        ELSE last' = [r EXCEPT !.status = 200, !.calls = call,
                        !.listed = listed,
                        !.ids = FilterTasks(listed, user_task_ids)]
     /\ UNCHANGED <<users, tasks, env, session, folders, reg, granted, got>>

\* delete_task, lines 230-252.  owned records whether the caller had a row for
\* the task id when the request arrived.
delete_task(s, task_id, loginOk, ok) ==
  LET g == get_pikpak_client(loginOk)
      task == FirstTask(task_id, session[s])
      exc == CallRaises(g.ret, ok)
      call == Invoked(g.ret, Call("delete_tasks", task_id))
      r == [R("task_delete", s) EXCEPT
              !.client = TRUE, !.ret = g.ret, !.tid = task_id,
              !.raised = g.raised,
              !.owned = \E i \in 1..Len(tasks) :
                           /\ tasks[i].user_id = session[s]
                           /\ tasks[i].pikpak_task_id = task_id]
  IN /\ pikpak_client' = g.global
     /\ IF task = 0
        THEN /\ UNCHANGED <<tasks, got>>
             /\ last' = [r EXCEPT !.status = 404,
                          !.error = <<"Task not found or access denied", "">>]
        ELSE IF exc # ""
        THEN /\ UNCHANGED <<tasks, got>>
             /\ last' = [r EXCEPT !.status = 500, !.error = <<"", exc>>,
                                  !.calls = call,
                                  !.raised = Append(g.raised, exc)]
        ELSE /\ tasks' = RemoveAt(tasks, task)
             /\ got' = got \ {<<session[s], task_id>>}
             /\ last' = [r EXCEPT !.status = 200, !.calls = call,
                                  !.dbChanged = (tasks' # tasks)]
     /\ UNCHANGED <<users, env, session, folders, reg, granted>>

\* retry_task, lines 254-267
retry_task(s, task_id, loginOk, ok) ==
  LET g == get_pikpak_client(loginOk)
      task == FirstTask(task_id, session[s])
      exc == CallRaises(g.ret, ok)
      call == Invoked(g.ret, Call("offline_task_retry", task_id))
      r == [R("task_retry", s) EXCEPT
              !.client = TRUE, !.ret = g.ret, !.tid = task_id,
              !.raised = g.raised,
              !.owned = \E i \in 1..Len(tasks) :
                           /\ tasks[i].user_id = session[s]
                           /\ tasks[i].pikpak_task_id = task_id]
  IN /\ pikpak_client' = g.global
     /\ IF task = 0
        THEN last' = [r EXCEPT !.status = 404,
                        !.error = <<"Task not found or access denied", "">>]
        ELSE IF exc # ""
        THEN last' = [r EXCEPT !.status = 500, !.error = <<"", exc>>,
                               !.calls = call,
                               !.raised = Append(g.raised, exc)]
        ELSE last' = [r EXCEPT !.status = 200, !.calls = call]
     /\ UNCHANGED <<users, tasks, env, session, folders, reg, granted, got>>

\* ------------------------------------------------------- the state machine
Init ==
  /\ users = <<>>
  /\ tasks = <<>>
  /\ pikpak_client = None
  /\ env \in BOOLEAN
  /\ session = [s \in Sessions |-> 0]
  /\ folders = 0
  /\ reg = [w \in Workers |-> RegIdle]
  /\ last = Resp0
  /\ granted = [s \in Sessions |-> "never"]
  /\ got = {}

RECURSIVE SeqsUpTo(_, _)
SeqsUpTo(S, n) ==
  IF n = 0 THEN {<<>>}
  ELSE SeqsUpTo(S, n - 1)
         \cup {Append(q, x) : q \in SeqsUpTo(S, n - 1), x \in S}

\* the shapes of an upstream get_download_url answer, with "medias" and
\* "links" of at most n entries
DownloadData(n) ==
  [web_content_link : WebContentLinks,
   medias : SeqsUpTo(MediaUrls, n),
   links : SeqsUpTo(LinkValues, n)]

\* the answers with no "medias" and no "links", and all of them
DirectLinkData == DownloadData(0)
AllDownloadData == DownloadData(MaxLinks)

\* the "file_ids" of a trash request: none or one
TrashInputs == SeqsUpTo(FileIds, 1)

\* the thread that serves the requests taken one at a time
MainWorker == {"w1"}

\* The outcomes the environment can give a request: the upstream login is only
\* attempted when there is no client yet and the credentials are configured.
LoginOutcomes == IF pikpak_client = None /\ env THEN BOOLEAN ELSE {TRUE}

Register(W) ==
  \E w \in W :
    \/ \E username \in UsernameInputs, password \in RegPasswordInputs :
         register_parse(w, username, password)
    \/ register_check(w)
    \/ \E loginOk \in LoginOutcomes, outcome \in FolderOutcomes :
         register_folder(w, loginOk, outcome)
    \/ register_commit(w)

Auth ==
  \/ \E s \in Sessions, username \in UsernameInputs,
        password \in PasswordInputs : login(s, username, password)
  \/ \E s \in Sessions : login_required("logout", s, logout(s))
  \/ \E s \in Sessions : login_required("user", s, get_current_user_info(s))

Files ==
  \/ \E s \in Sessions :
       login_required("files", s,
         \E parent_id \in ParentIds, loginOk \in LoginOutcomes,
            ok \in BOOLEAN : list_files(s, parent_id, loginOk, ok))
  \/ \E s \in Sessions :
       login_required("file_info", s,
         \E file_id \in FileIds, loginOk \in LoginOutcomes, ok \in BOOLEAN :
           get_file_info(s, file_id, loginOk, ok))
  \/ \E s \in Sessions :
       login_required("file_url", s,
         \E file_id \in FileIds, loginOk \in LoginOutcomes, ok \in BOOLEAN :
           get_download_url(s, file_id, loginOk, ok))
  \/ \E s \in Sessions :
       login_required("quota", s,
         \E loginOk \in LoginOutcomes, ok \in BOOLEAN : get_quota(s, loginOk, ok))
  \/ \E s \in Sessions :
       login_required("trash", s,
         \E file_ids \in TrashInputs, loginOk \in LoginOutcomes,
            ok \in BOOLEAN : trash_files(s, file_ids, loginOk, ok))

Proxy(shapes) ==
  \E s \in Sessions :
    login_required("proxy", s,
      \E file_id \in FileIds, download_data \in shapes,
         failing \in Failings, loginOk \in LoginOutcomes :
        proxy_download(s, file_id, download_data, failing, loginOk))

Downloads ==
  \/ \E s \in Sessions :
       login_required("download", s,
         \E magnet_url \in UrlInputs, task_id \in TaskIdAnswers,
            loginOk \in LoginOutcomes, ok \in BOOLEAN :
           add_download(s, magnet_url, task_id, loginOk, ok))
  \/ \E s \in Sessions :
       login_required("tasks", s,
         \E listed \in Listings, loginOk \in LoginOutcomes, ok \in BOOLEAN :
           list_tasks(s, listed, loginOk, ok))
  \/ \E s \in Sessions :
       login_required("task_delete", s,
         \E task_id \in TaskIds, loginOk \in LoginOutcomes, ok \in BOOLEAN :
           delete_task(s, task_id, loginOk, ok))
  \/ \E s \in Sessions :
       login_required("task_retry", s,
         \E task_id \in TaskIds, loginOk \in LoginOutcomes, ok \in BOOLEAN :
           retry_task(s, task_id, loginOk, ok))

\* No register request is being served.
Idle == \A w \in Workers : reg[w].pc = "idle"

\* Every handler, the requests served one at a time (a request is taken up
\* when the one before it has been answered), the download answer with or
\* without a direct link.
Next ==
  \/ Register(MainWorker)
  \/ Idle /\ Auth
  \/ Idle /\ Files
  \/ Idle /\ Proxy(DirectLinkData)
  \/ Idle /\ Downloads

Spec == Init /\ [][Next]_vars

\* Register requests served by two worker threads at once.
NextRegister == Register(Workers)

SpecRegister == Init /\ [][NextRegister]_vars

\* The task handlers, with registration and the session handlers, the
\* requests served one at a time.
NextTasks ==
  \/ Register(MainWorker)
  \/ Idle /\ Auth
  \/ Idle /\ Downloads

SpecTasks == Init /\ [][NextTasks]_vars

\* The download proxy over every shape of the upstream answer, from the state
\* Spec reaches when user "u" has registered and then logged in.
InitProxy ==
  /\ users = <<UserRow("u", generate_password_hash("p"), 1)>>
  /\ tasks = <<>>
  /\ pikpak_client = "LoggedIn"
  /\ env = TRUE
  /\ session = [s \in Sessions |-> 1]
  /\ folders = 1
  /\ reg = [w \in Workers |-> RegIdle]
  /\ last = [Resp0 EXCEPT !.ep = "login", !.sess = CHOOSE s \in Sessions : TRUE,
                          !.status = 200, !.uidAfter = 1,
                          !.username = "u", !.password = "p"]
  /\ granted = [s \in Sessions |-> "u"]
  /\ got = {}

NextProxy ==
  \/ Auth
  \/ Proxy(AllDownloadData)

SpecProxy == InitProxy /\ [][NextProxy]_vars

\* =================================================================== claims
ProtectedEps ==
  {"logout", "user", "files", "file_info", "file_url", "proxy", "trash",
   "download", "tasks", "task_delete", "task_retry"}

\* the last request reached a protected endpoint from an anonymous session
Anonymous == last.ep \in ProtectedEps /\ last.uidBefore = 0

\* C1 (as claimed): a request to a protected endpoint from a session with no
\* logged-in user is answered 401, invokes neither get_pikpak_client nor any
\* upstream method, and leaves the Users and Tasks tables unchanged.
C1_Unauthenticated401 ==
  Anonymous =>
    /\ last.status = 401
    /\ ~last.client
    /\ last.calls = <<>>
    /\ ~last.dbChanged

\* What does hold of such a request: it is turned away before the view runs,
\* with the redirect to the login view, touching neither upstream nor tables.
AnonymousTurnedAway ==
  Anonymous =>
    /\ last.status = 302
    /\ ~last.client
    /\ last.calls = <<>>
    /\ ~last.dbChanged
    /\ last.uidAfter = 0

\* the credentials of the last login request match a row of the Users table
ValidCredentials ==
  \E i \in 1..Len(users) :
    /\ users[i].username = last.username
    /\ last.password # None
    /\ users[i].password_hash = <<"hash", last.password>>

\* C2 (as claimed): a login with invalid credentials (unknown username, wrong
\* password, username or password absent) is answered 401 and leaves the
\* session's logged-in user unchanged.
C2_InvalidLogin401 ==
  (last.ep = "login" /\ ~ValidCredentials) =>
    /\ last.status = 401
    /\ last.uidAfter = last.uidBefore
    /\ session[last.sess] = last.uidBefore

\* What does hold of an invalid login: it never establishes a session.
InvalidLoginNoSession ==
  (last.ep = "login" /\ ~ValidCredentials) =>
    /\ (last.status = 401 \/ last.status = 500)
    /\ session[last.sess] = last.uidBefore

\* C3: the Users table holds at most one row per username, under any
\* interleaving of two register requests, and a register request for a
\* username that had a row when it arrived is answered 400 and adds no row.
C3_UniqueUsername ==
  /\ \A i, j \in 1..Len(users) : users[i].username = users[j].username => i = j
  /\ (last.ep = "register" /\ last.existed) =>
       (last.status = 400 /\ ~last.dbChanged)

\* C3 witness: with a row in the table, a register request for a username
\* that already had one has been answered 400.
C3_Witness ==
  /\ Len(users) >= 1
  /\ last.ep = "register" /\ last.existed
  /\ last.status = 400
  /\ last.error = <<"Username already exists", "">>

\* the two requests raced: the second commit was refused by the database
RegisterRaceRefused ==
  last.ep = "register" /\ last.raised = <<"IntegrityError">> /\ ~last.existed

TaskCalls == {"delete_tasks", "offline_task_retry"}

\* the last request was a delete or retry by a logged-in user for a task id
\* the user had no row for
NotOwnedRequest ==
  /\ (last.ep = "task_delete" \/ last.ep = "task_retry")
  /\ last.uidBefore # 0
  /\ ~last.owned

\* C4: a delete or retry by a logged-in user for a task id the user has no row
\* for is answered 404, makes no upstream delete_tasks or offline_task_retry
\* call and leaves every Task row unchanged, another user's row included.
C4_NotOwned404 ==
  NotOwnedRequest =>
    /\ last.status = 404
    /\ \A i \in 1..Len(last.calls) : last.calls[i].m \notin TaskCalls
    /\ ~last.dbChanged

\* C4 witness: a logged-in user was answered 404 for a task id for which
\* another user holds a row, and that row is still there.
C4_Witness ==
  /\ NotOwnedRequest
  /\ last.status = 404
  /\ \E i \in 1..Len(tasks) :
       /\ tasks[i].pikpak_task_id = last.tid
       /\ tasks[i].user_id # last.uidBefore

FileEps == {"files", "file_info", "file_url", "proxy", "trash"}
FileCalls ==
  {"file_list", "offline_file_info", "get_download_url", "delete_to_trash"}

\* the ids inside the provisioned folder of user uid: the folder and its file
Scope(uid) ==
  IF users[uid].pikpak_folder_id = 0 THEN {}
  ELSE {users[uid].pikpak_folder_id, FileOf(users[uid].pikpak_folder_id)}

\* the ids an upstream file call was made with
CallIds(call) ==
  IF call.m = "delete_to_trash"
  THEN {call.arg[i] : i \in 1..Len(call.arg)}
  ELSE {call.arg}

\* C5 (as claimed): for a logged-in user no upstream file call is made with
\* an id outside the user's provisioned folder; such a request is not found.
C5_FolderScope ==
  (last.ep \in FileEps /\ last.uidBefore # 0) =>
    \A i \in 1..Len(last.calls) :
      last.calls[i].m \in FileCalls =>
        CallIds(last.calls[i]) \subseteq Scope(last.uidBefore)

\* C6 (as claimed): after a login answered 200, GET /api/user on the session
\* is answered 200 with that username until a logout; after a logout it is
\* answered 401 until the next successful login.
C6_SessionLifecycle ==
  last.ep = "user" =>
    /\ granted[last.sess] \in Usernames =>
         (last.status = 200 /\ last.username = granted[last.sess])
    /\ granted[last.sess] = "out" => last.status = 401

\* What does hold of the lifecycle: the user is served while logged in, and
\* turned away (with the redirect of C1) after a logout.
SessionLifecycleRedirect ==
  last.ep = "user" =>
    /\ granted[last.sess] \in Usernames =>
         (last.status = 200 /\ last.username = granted[last.sess])
    /\ granted[last.sess] = "out" => last.status = 302

\* the task ids user uid was handed by a download and has not deleted since
Outstanding(uid) == {p[2] : p \in {q \in got : q[1] = uid}}

\* C7 (as claimed): a download answered 200 carries a task id, and every
\* later task list answered to the same user includes the id until the task
\* is deleted.
C7_DownloadListed ==
  /\ (last.ep = "download" /\ last.status = 200) => last.tid \in TaskIds
  /\ (last.ep = "tasks" /\ last.status = 200) =>
       Outstanding(last.uidBefore) \subseteq last.ids

\* C7 (amended): a download answered 200 whose upstream answer carries a task
\* id records a Task row for the caller, the row stays until the caller
\* deletes the task, and a later task list answered 200 to the caller includes
\* the id exactly when the upstream offline_list answer lists it.
C7_DownloadListedIfUpstream ==
  /\ (last.ep = "download" /\ last.status = 200 /\ last.tid \in TaskIds) =>
       <<last.uidBefore, last.tid>> \in got
  /\ \A p \in got : FirstTask(p[2], p[1]) # 0
  /\ (last.ep = "tasks" /\ last.status = 200) =>
       \A t \in Outstanding(last.uidBefore) :
         t \in last.ids <=> t \in last.listed

\* C7 witness: a user holding an outstanding task id was answered a task list
\* that includes it.
C7_Witness ==
  /\ last.ep = "tasks" /\ last.status = 200
  /\ \E t \in Outstanding(last.uidBefore) : t \in last.ids /\ t \in last.listed

\* the upstream answer was probed for a URL by the last proxy request
Probed == last.ep = "proxy" /\ (last.status = 404 \/ last.url # "")

\* the URLs the "links" map of the answer carries
LinkUrls(d) == {d.links[i] : i \in 1..Len(d.links)} \ {""}

\* C8 (as claimed): the URL is the direct link, else the first media's link,
\* else a URL of the links map; the answer is 404 exactly when none of these
\* is there; an answer holding only a links map with an entry that carries a
\* URL is served from one of its URLs.
C8_UrlPreference ==
  Probed =>
    LET d == last.data
        media == IF Len(d.medias) > 0 THEN d.medias[1] ELSE ""
    IN /\ d.web_content_link # "" => last.url = d.web_content_link
       /\ (d.web_content_link = "" /\ media # "") => last.url = media
       /\ (d.web_content_link = "" /\ media = "" /\ LinkUrls(d) # {}) =>
            last.url \in LinkUrls(d)
       /\ last.status = 404 <=>
            (d.web_content_link = "" /\ media = "" /\ LinkUrls(d) = {})

\* What does hold of the probe: only the first entry of the links map counts.
UrlPreferenceFirstLink ==
  Probed =>
    LET d == last.data
        media == IF Len(d.medias) > 0 THEN d.medias[1] ELSE ""
        link == IF Len(d.links) > 0 THEN d.links[1] ELSE ""
    IN /\ last.url = (IF d.web_content_link # "" THEN d.web_content_link
                      ELSE IF media # "" THEN media ELSE link)
       /\ last.status = 404 <=> last.url = ""

\* C9 (as claimed): when an upstream call or an internal step raises, the
\* answer is 500 with the exception's message in the JSON error body, and the
\* Users and Tasks tables are unchanged.
C9_Exception500 ==
  last.raised # <<>> =>
    /\ last.status = 500
    /\ last.json
    /\ \E i \in 1..Len(last.raised) : last.error[2] = last.raised[i]
    /\ ~last.dbChanged

\* What does hold when something raises: the answer is 500 and the tables
\* are unchanged.
Exception500TablesKept ==
  last.raised # <<>> => (last.status = 500 /\ ~last.dbChanged)

\* C10 (as claimed): a client returned by get_pikpak_client has completed its
\* upstream login, also in calls that follow one whose login raised.
C10_ClientLoggedIn ==
  last.client => (last.ret = None \/ last.ret = "LoggedIn")

====
